---- MODULE Spec2Model ----
(***************************************************************************)
(* A model of andiwork/go-healthcheck.                                     *)
(*                                                                         *)
(* The repository holds two things:                                        *)
(*   - AndictlCheckerConfig: a list of health.CheckerOption values built   *)
(*     by InitChecker, AddCheck and AddDatabaseCheck, and handed to        *)
(*     health.NewChecker by GetCheckerHandler;                             *)
(*   - the probe constructors of health.go (TCPDialCheck, HTTPGetCheck,    *)
(*     DatabasePingCheck, DNSResolveCheck, GoroutineCountCheck), each      *)
(*     returning a func(ctx context.Context) error.                        *)
(*                                                                         *)
(* Spec      : the configuration list as a Go slice (backing arrays on a   *)
(*             heap, a slice header with len and cap) and the handlers     *)
(*             built from it.                                              *)
(* SpecProbe : one probe function running against a clock and the context  *)
(*             it was invoked with.                                        *)
(* Durations are in seconds.                                               *)
(***************************************************************************)
EXTENDS Integers, Sequences, FiniteSets

VARIABLES
    heap,       \* the backing arrays allocated so far: heap[a] is array a
    checkers,   \* c.checkers, a slice header [arr, len, cap]
    handlers,   \* the handlers GetCheckerHandler has returned, oldest first
    now,        \* the clock
    ctx,        \* the context the probe is invoked with: [done, doneAt]
    pc,         \* the probe function: "idle", "running" or "returned"
    probe,      \* the closure being run and what the run reads
    result      \* the error the probe function returned

vars == <<heap, checkers, handlers, now, ctx, pc, probe, result>>

(***************************************************************************)
(* Bounds of the model.                                                    *)
(***************************************************************************)
\* AddCheck is enabled while c.checkers is shorter than this. InitChecker
\* leaves 4 options in an array of capacity 10, so 11 makes append grow it.
MaxLen == 11
\* GetCheckerHandler is enabled while fewer handlers than this exist.
MaxHandlers == 2
\* The clock stops here.
MaxTime == 3
\* Probe timeouts are drawn from 1..MaxTimeout.
MaxTimeout == 2
\* Thresholds other than the default one are drawn from 1..MaxThreshold.
MaxThreshold == 2

(***************************************************************************)
(* Program constants.                                                      *)
(***************************************************************************)
\* make([]health.CheckerOption, 0, 10)
InitCap == 10
\* GoroutineCountCheck(100)
GoroutineThreshold == 100

(***************************************************************************)
(* Probe closures: what each constructor of health.go captures.            *)
(***************************************************************************)
TCPDialCheck(addr, timeout) ==
    [fn |-> "TCPDialCheck", target |-> addr, timeout |-> timeout]

HTTPGetCheck(url, timeout) ==
    [fn |-> "HTTPGetCheck", target |-> url, timeout |-> timeout]

DatabasePingCheck(database, timeout) ==
    [fn |-> "DatabasePingCheck", target |-> database, timeout |-> timeout]

DNSResolveCheck(host, timeout) ==
    [fn |-> "DNSResolveCheck", target |-> host, timeout |-> timeout]

GoroutineCountCheck(threshold) ==
    [fn |-> "GoroutineCountCheck", threshold |-> threshold]

(***************************************************************************)
(* health.CheckerOption values, as the repository builds them.             *)
(***************************************************************************)
WithCacheDuration(d) == [opt |-> "WithCacheDuration", d |-> d]

WithTimeout(d) == [opt |-> "WithTimeout", d |-> d]

WithCheck(name, timeout, check) ==
    [opt |-> "WithCheck", name |-> name, timeout |-> timeout, check |-> check]

WithStatusListener(f) == [opt |-> "WithStatusListener", f |-> f]

\* An unused slot of a backing array.
Nil == [opt |-> "nil"]

(***************************************************************************)
(* Go slices.                                                              *)
(***************************************************************************)
\* make([]T, 0, cap): a new array on the heap and a header for it.
MakeSlice(hp, cap) ==
    [heap |-> Append(hp, [i \in 1..cap |-> Nil]),
     slice |-> [arr |-> Len(hp) + 1, len |-> 0, cap |-> cap]]

\* The elements a slice header shows.
Elems(hp, s) == [i \in 1..s.len |-> hp[s.arr][i]]

\* AddCheck written as append(c.checkers[:len(c.checkers)-1], check): the new
\* option replaces the last one in place instead of following it.
AddCheck_replaceLast(hp, c, check) ==
    IF c.len = 0
    THEN [heap |-> [hp EXCEPT ![c.arr][1] = check],
          slice |-> [c EXCEPT !.len = 1]]
    ELSE [heap |-> [hp EXCEPT ![c.arr][c.len] = check], slice |-> c]

\* c.checkers = append(c.checkers, check): in place when the capacity
\* allows, else into a new array of twice the capacity.
AddCheck(hp, c, check) ==
    IF c.len < c.cap
    THEN [heap |-> [hp EXCEPT ![c.arr][c.len + 1] = check],
          slice |-> [c EXCEPT !.len = c.len + 1]]
    ELSE LET newcap == IF c.cap = 0 THEN 1 ELSE 2 * c.cap
             grown == [i \in 1..newcap |->
                          IF i <= c.len THEN hp[c.arr][i]
                          ELSE IF i = c.len + 1 THEN check ELSE Nil]
         IN  [heap |-> Append(hp, grown),
              slice |-> [arr |-> Len(hp) + 1, len |-> c.len + 1, cap |-> newcap]]

\* The listener InitChecker registers: it logs the new status.
LogStatusListener == "log health status changed"

\* InitChecker: an empty list of capacity 10, then four AddCheck calls.
InitChecker ==
    LET m0 == MakeSlice(<<>>, InitCap)
        m1 == AddCheck(m0.heap, m0.slice, WithCacheDuration(1))
        m2 == AddCheck(m1.heap, m1.slice, WithTimeout(10))
        m3 == AddCheck(m2.heap, m2.slice,
                       WithCheck("goroutine-threshold", 2,
                                 GoroutineCountCheck(GoroutineThreshold)))
        m4 == AddCheck(m3.heap, m3.slice, WithStatusListener(LogStatusListener))
    IN  m4

\* The option AddDatabaseCheck builds.
DatabaseCheckOption(db) == WithCheck("database", 2, DatabasePingCheck(db, 1))

\* The database handles a caller may pass: none, or an open one.
Databases == {"nil", "db"}

\* The options a caller passes to AddCheck directly.
CallerOptions == {WithCheck("custom", 2, GoroutineCountCheck(1))}

(***************************************************************************)
(* Actions on the configuration.                                           *)
(***************************************************************************)
\* c.AddCheck(check), called by the caller with an option of its own.
AddCheckAction ==
    /\ checkers.len < MaxLen
    /\ \E check \in CallerOptions :
          LET m == AddCheck(heap, checkers, check)
          IN  /\ heap' = m.heap
              /\ checkers' = m.slice
    /\ UNCHANGED <<handlers, now, ctx, pc, probe, result>>

\* c.AddDatabaseCheck(db): builds the "database" check and calls AddCheck.
\* Nothing looks at the names already registered.
AddDatabaseCheck ==
    /\ checkers.len < MaxLen
    /\ \E db \in Databases :
          LET m == AddCheck(heap, checkers, DatabaseCheckOption(db))
          IN  /\ heap' = m.heap
              /\ checkers' = m.slice
    /\ UNCHANGED <<handlers, now, ctx, pc, probe, result>>

\* health.NewHandler(health.NewChecker(c.checkers...)): the options are
\* passed as the slice itself (no copy is made by the spread), and there is
\* no check and no error result. built is what the list held at the call.
GetCheckerHandler ==
    /\ Len(handlers) < MaxHandlers
    /\ handlers' = Append(handlers,
                          [opts |-> checkers, built |-> Elems(heap, checkers)])
    /\ UNCHANGED <<heap, checkers, now, ctx, pc, probe, result>>

(***************************************************************************)
(* The probe functions of health.go.                                       *)
(***************************************************************************)
NoError == [err |-> "nil"]

NotReturned == [err |-> "none"]

NoProbe == [check |-> [fn |-> "none"], startedAt |-> 0, deadline |-> 0, count |-> 0]

Max(a, b) == IF a >= b THEN a ELSE b

\* The probes that block on I/O until it completes or their own timeout ends.
BlockingFns == {"TCPDialCheck", "HTTPGetCheck", "DatabasePingCheck", "DNSResolveCheck"}

\* GoroutineCountCheck's closure with the comparison count >= threshold.
RunGoroutineCountCheck_atLeast(threshold, count) ==
    IF count >= threshold
    THEN [err |-> "too many goroutines", count |-> count, threshold |-> threshold]
    ELSE NoError

\* The closure GoroutineCountCheck(threshold) returns, run while
\* runtime.NumGoroutine() is count. It never reads ctx.
RunGoroutineCountCheck(threshold, count) ==
    IF count > threshold
    THEN [err |-> "too many goroutines", count |-> count, threshold |-> threshold]
    ELSE NoError

\* What a blocking probe returns when its I/O ends before its timeout.
IOOutcomes(fn) ==
    CASE fn = "TCPDialCheck" ->
            {NoError, [err |-> "dial error"], [err |-> "close error"]}
      [] fn = "HTTPGetCheck" ->
            {NoError, [err |-> "get error"], [err |-> "returned status", status |-> 503]}
      [] fn = "DatabasePingCheck" ->
            {NoError, [err |-> "ping error"]}
      [] fn = "DNSResolveCheck" ->
            {NoError, [err |-> "lookup error"], [err |-> "could not resolve host"]}

\* What a blocking probe returns when its own timeout ends first: the
\* timeout given to net.DialTimeout or http.Client, or the deadline of the
\* context the probe derives from context.Background().
TimeoutError(fn) ==
    IF fn \in {"TCPDialCheck", "HTTPGetCheck"}
    THEN [err |-> "i/o timeout"]
    ELSE [err |-> "context deadline exceeded"]

\* The check functions registered in the configuration.
RegisteredChecks ==
    {heap[checkers.arr][i].check :
        i \in {j \in 1..checkers.len : heap[checkers.arr][j].opt = "WithCheck"}}

Timeouts == 1..MaxTimeout

\* Probes a caller builds directly from the constructors.
DirectProbes ==
    {TCPDialCheck("addr", t) : t \in Timeouts}
    \cup {HTTPGetCheck("url", t) : t \in Timeouts}
    \cup {DatabasePingCheck(db, t) : db \in Databases, t \in Timeouts}
    \cup {DNSResolveCheck("host", t) : t \in Timeouts}
    \cup {GoroutineCountCheck(t) : t \in 1..MaxThreshold}

Probes == RegisteredChecks \cup DirectProbes

\* The values runtime.NumGoroutine() takes: around each threshold.
GoroutineCounts ==
    1..(MaxThreshold + 1) \cup (GoroutineThreshold - 1)..(GoroutineThreshold + 1)

\* GoroutineCountCheck's closure: it returns at once.
InvokeGoroutineCountCheck ==
    /\ pc # "running"
    /\ \E check \in Probes, count \in GoroutineCounts :
          /\ check.fn = "GoroutineCountCheck"
          /\ probe' = [check |-> check, startedAt |-> now, deadline |-> now,
                       count |-> count]
          /\ result' = RunGoroutineCountCheck(check.threshold, count)
    /\ pc' = "returned"
    /\ UNCHANGED <<heap, checkers, handlers, now, ctx>>

\* DatabasePingCheck's closure on a nil database: it returns at once.
InvokeNilDatabasePing ==
    /\ pc # "running"
    /\ \E check \in Probes :
          /\ check.fn = "DatabasePingCheck"
          /\ check.target = "nil"
          /\ probe' = [check |-> check, startedAt |-> now, deadline |-> now,
                       count |-> 0]
    /\ result' = [err |-> "database is nil"]
    /\ pc' = "returned"
    /\ UNCHANGED <<heap, checkers, handlers, now, ctx>>

\* A blocking probe starts its I/O. Its only bound is its own timeout,
\* counted from now: the ctx argument is not passed on (TCPDialCheck,
\* HTTPGetCheck) or is shadowed by a context derived from
\* context.Background() (DatabasePingCheck, DNSResolveCheck).
InvokeBlockingProbe ==
    /\ pc # "running"
    /\ \E check \in Probes :
          /\ check.fn \in BlockingFns
          /\ ~(check.fn = "DatabasePingCheck" /\ check.target = "nil")
          /\ probe' = [check |-> check, startedAt |-> now,
                       deadline |-> now + check.timeout, count |-> 0]
    /\ result' = NotReturned
    /\ pc' = "running"
    /\ UNCHANGED <<heap, checkers, handlers, now, ctx>>

\* The I/O of a blocking probe ends.
IOCompletes ==
    /\ pc = "running"
    /\ \E r \in IOOutcomes(probe.check.fn) : result' = r
    /\ pc' = "returned"
    /\ UNCHANGED <<heap, checkers, handlers, now, ctx, probe>>

\* The probe's own timeout ends.
ProbeTimesOut ==
    /\ pc = "running"
    /\ now = probe.deadline
    /\ result' = TimeoutError(probe.check.fn)
    /\ pc' = "returned"
    /\ UNCHANGED <<heap, checkers, handlers, now, ctx, probe>>

\* The caller's context is cancelled or reaches its deadline.
CancelCtx ==
    /\ ~ctx.done
    /\ ctx' = [done |-> TRUE, doneAt |-> now]
    /\ UNCHANGED <<heap, checkers, handlers, now, pc, probe, result>>

\* The caller makes a new context for its next call.
NewContext ==
    /\ pc # "running"
    /\ ctx.done
    /\ ctx' = [done |-> FALSE, doneAt |-> 0]
    /\ UNCHANGED <<heap, checkers, handlers, now, pc, probe, result>>

\* Time passes; a running probe returns no later than its own deadline.
Tick ==
    /\ now < MaxTime
    /\ pc = "running" => now < probe.deadline
    /\ now' = now + 1
    /\ UNCHANGED <<heap, checkers, handlers, ctx, pc, probe, result>>

ProbeIdle ==
    /\ now = 0
    /\ ctx = [done |-> FALSE, doneAt |-> 0]
    /\ pc = "idle"
    /\ probe = NoProbe
    /\ result = NotReturned

Init ==
    /\ heap = InitChecker.heap
    /\ checkers = InitChecker.slice
    /\ handlers = <<>>
    /\ ProbeIdle

Next ==
    \/ AddCheckAction
    \/ AddDatabaseCheck
    \/ GetCheckerHandler

Spec == Init /\ [][Next]_vars

\* The probes run against the configuration InitChecker returns, with or
\* without one AddDatabaseCheck call.
InitProbe ==
    /\ \E m \in {InitChecker}
            \cup {AddCheck(InitChecker.heap, InitChecker.slice, DatabaseCheckOption(db)) :
                    db \in Databases} :
          /\ heap = m.heap
          /\ checkers = m.slice
    /\ handlers = <<>>
    /\ ProbeIdle

NextProbe ==
    \/ InvokeGoroutineCountCheck
    \/ InvokeNilDatabasePing
    \/ InvokeBlockingProbe
    \/ IOCompletes
    \/ ProbeTimesOut
    \/ CancelCtx
    \/ NewContext
    \/ Tick

SpecProbe == InitProbe /\ [][NextProbe]_vars

(***************************************************************************)
(* Properties.                                                             *)
(***************************************************************************)
\* The names of the checks in a list of options are pairwise different.
UniqueNames(opts) ==
    \A i, j \in 1..Len(opts) :
        (i # j /\ opts[i].opt = "WithCheck" /\ opts[j].opt = "WithCheck")
            => opts[i].name # opts[j].name

\* C6: a configuration holding two checks of the same name is rejected when
\* the handler is constructed: no handler is ever built from a list of
\* options in which two checks share a name.
C6_DuplicateNamesRejected ==
    \A k \in 1..Len(handlers) : UniqueNames(handlers[k].built)

\* C7: the configuration of a constructed handler is frozen: the options a
\* handler was built from, read through the slice it was given, are at every
\* later moment the options the list held when GetCheckerHandler was called,
\* whatever AddCheck and AddDatabaseCheck calls follow.
C7_HandlerConfigFrozen ==
    \A k \in 1..Len(handlers) :
        Elems(heap, handlers[k].opts) = handlers[k].built

\* C7's case: a handler was built while the list still had spare capacity,
\* and options were added afterwards, in place and then past the capacity.
C7_AddedAfterHandlerBuilt ==
    \E k \in 1..Len(handlers) :
        /\ handlers[k].opts.len < InitCap
        /\ checkers.len > InitCap
        /\ checkers.arr # handlers[k].opts.arr

\* C8: every probe observes the cancellation of the context it was invoked
\* with and stops promptly: no time passes while a probe is running with a
\* context that is done.
C8_ProbesStopWhenContextDone ==
    ~(/\ pc = "running"
      /\ ctx.done
      /\ now > Max(ctx.doneAt, probe.startedAt))

\* C10: a goroutine-count probe fails exactly when the count is strictly
\* above its threshold, whether or not its context is done, and the default
\* configuration registers one under the name "goroutine-threshold" with
\* threshold 100.
C10_GoroutineCountCheckStrict ==
    /\ (pc = "returned" /\ probe.check.fn = "GoroutineCountCheck")
          => ((result.err # "nil") <=> (probe.count > probe.check.threshold))
    /\ \E i \in 1..checkers.len :
          /\ heap[checkers.arr][i] =
                [opt |-> "WithCheck", name |-> "goroutine-threshold", timeout |-> 2,
                 check |-> [fn |-> "GoroutineCountCheck", threshold |-> 100]]
          /\ \A j \in 1..checkers.len :
                (heap[checkers.arr][j].opt = "WithCheck"
                    /\ heap[checkers.arr][j].name = "goroutine-threshold") => j = i

\* C10's case: the registered probe ran with a done context while the count
\* equalled its threshold of 100, and succeeded.
C10_RegisteredCheckAtThreshold ==
    /\ pc = "returned"
    /\ probe.check \in RegisteredChecks
    /\ probe.check.fn = "GoroutineCountCheck"
    /\ probe.check.threshold = 100
    /\ probe.count = 100
    /\ ctx.done
    /\ result = NoError

====
